---- MODULE Spec2Model ----
(***************************************************************************)
(* Model of the thread-safe action handler (src/action/handler.go).        *)
(*                                                                         *)
(* One serializer goroutine (handlerLoop) receives ctrlAction values from  *)
(* the unbuffered channel ctrlChannel and executes them one at a time.     *)
(* SynchronousActionSend starts a helper goroutine per call that races the *)
(* hand-off against ctx.Done() and the reply; AsynchronousActionSend sends *)
(* directly on ctrlChannel.  A Go select with several ready cases picks    *)
(* any of them, so every ready case is a possible step.                    *)
(***************************************************************************)
EXTENDS Integers, Sequences, FiniteSets, TLC

\* ---------------------------------------------------------------- bounds
NSync == 2          \* number of SynchronousActionSend calls
NAsync == 1         \* number of AsynchronousActionSend calls
MaxArg == 1         \* non-nil arguments are 1..MaxArg
NThemes == 2        \* themes of the subscription example are 1..NThemes
MaxOps == 4         \* operations issued on the subscription handler

\* ---------------------------------------------------------------- values
Nil == 0                                \* nil interface{} value
NoErr == "nil"                          \* nil error
Canceled == "context canceled"          \* context.Canceled
TaskErr == "something wrong happened"   \* failure produced by a task

SyncIds == 1..NSync
AsyncIds == (NSync + 1)..(NSync + NAsync)
Ids == SyncIds \cup AsyncIds
Args == {Nil} \cup (1..MaxArg)
NoAction == 0                           \* the loop holds no ctrlAction

\* Task bodies a caller can submit (ThreadSafeTask values).
\*   "result"         returns (RetValue{args}, nil)
\*   "fail"           returns (nil, TaskErr)
\*   "failWithResult" returns (RetValue{args}, TaskErr)
TaskKinds == {"result", "fail", "failWithResult"}

\* RetValue{providedArgs: args}: a non-nil value that wraps the argument.
RetValue(a) == 10 + a

\* The (task, argument) pairs a caller submits: a task that returns a result
\* is tried with every argument, a failing task with nil, a task that
\* returns a result next to its failure with every non-nil argument.
SyncInputs ==
    ({"result"} \X Args) \cup {<<"fail", Nil>>}
        \cup ({"failWithResult"} \X (1..MaxArg))
\* Asynchronous callers never see the outcome: one failing task is enough.
AsyncInputs == ({"result"} \X Args) \cup {<<"fail", Nil>>}

\* A Go channel of capacity 1: its buffer and whether it has been closed.
\* writes, closes and recvs count the operations done on it; lateWrite
\* records a send made after the close (a panic in Go).
NewChan ==
    [buf |-> <<>>, closed |-> FALSE, writes |-> 0, closes |-> 0,
     recvs |-> 0, lateWrite |-> FALSE]

VARIABLES
    cancelled,   \* ctx.Done() is closed
    loopPc,      \* handlerLoop: "select", "exec", "reply", "done"
    cur,         \* id of the ctrlAction the loop received (NoAction if none)
    curOut,      \* <<result, err>> returned by cur's execute()
    running,     \* ids whose task body is executing right now
    applied,     \* shared state: the log <<id, task, argument>> of the task bodies that have run
    task,        \* id -> task kind submitted
    args,        \* id -> argument submitted
    syncPc,      \* sync caller: "idle", "send", "wait", "returned"
    helperPc,    \* sync helper goroutine: "none", "select", "handoff", "notify", "exit"
    send,        \* per call: the send channel (cap 1)
    replyChan,   \* per call: ctrlChannelReplies (cap 1)
    errChan,     \* per call: ctrlErrorChannel (cap 1)
    err,         \* per call: the captured variable err
    reply,       \* per call: the captured variable reply
    received,    \* per call: the captured variable received
    ret,         \* per call: <<reply, err>> returned to the caller
    asyncPc,     \* async caller: "idle", "handoff", "returned"
    issuedAfterCancel, \* history: ids whose call started after the scope ended
    dequeued,    \* history: id -> "no", "active" (dequeued before scope end), "ended"
    cancelledDuring, \* history: the id whose task body was executing when
                     \* cancel() was called (NoAction if none)
    subsByTheme, \* SubscriptionHandlerLockFree.subsByTheme: theme -> (id -> name)
    uuid,        \* how many ids shortuuid.New() has produced (ids are 1..uuid)
    created,     \* history: the <<theme, id>> pairs AddNewSubscription returned
    removeAsked, \* history: the <<theme, id>> pairs whose removal was requested
    ops,         \* history: how many subscription operations were issued
    sequential   \* history: every operation so far was synchronous and was
                 \* issued when no other one was in progress

vars == <<cancelled, loopPc, cur, curOut, running, applied, task, args,
          syncPc, helperPc, send, replyChan, errChan, err, reply, received,
          ret, asyncPc, issuedAfterCancel, dequeued, cancelledDuring,
          subsByTheme, uuid, created, removeAsked, ops, sequential>>

loopVars == <<loopPc, cur, curOut, running, applied>>
chanVars == <<send, replyChan, errChan>>
helperVars == <<err, reply, received>>
histVars == <<issuedAfterCancel, dequeued, cancelledDuring>>
subState == <<subsByTheme, uuid>>
clientVars == <<created, removeAsked, ops, sequential>>
subVars == <<subsByTheme, uuid, created, removeAsked, ops, sequential>>

\* ------------------------------------------------------- pure operators

\* ctx.Done() is ready to receive from.
\* (variant: a context whose Done channel is never closed)
CtxDone_NeverClosed == FALSE
CtxDone == cancelled

\* ctx.Err(): context.Canceled once the context is cancelled.
\* (variant: reports another error than context.Canceled)
CtxErr_WrongError == IF cancelled THEN TaskErr ELSE NoErr
CtxErr == IF cancelled THEN Canceled ELSE NoErr

\* controlThreadSafeContext.execute(): controlFunc(args).
\* (variant: calls controlFunc(nil) instead of controlFunc(c.args))
execute_DropsArgs(kind, a) ==
    CASE kind = "result"         -> <<RetValue(Nil), NoErr>>
      [] kind = "fail"           -> <<Nil, TaskErr>>
      [] kind = "failWithResult" -> <<RetValue(Nil), TaskErr>>
execute(kind, a) ==
    CASE kind = "result"         -> <<RetValue(a), NoErr>>
      [] kind = "fail"           -> <<Nil, TaskErr>>
      [] kind = "failWithResult" -> <<RetValue(a), TaskErr>>

\* A receive from channel ch can proceed.
CanRecv(ch) == Len(ch.buf) > 0 \/ ch.closed
\* The value a receive yields; zero is the zero value of a closed, empty channel.
RecvVal(ch, zero) == IF Len(ch.buf) > 0 THEN Head(ch.buf) ELSE zero
AfterRecv(ch) ==
    [ch EXCEPT !.buf = IF Len(@) > 0 THEN Tail(@) ELSE @, !.recvs = @ + 1]
\* A send on a capacity-1 channel does not block: the buffer has room.
CanSend(ch) == Len(ch.buf) < 1
\* ch <- v followed by the deferred close(ch).
SendAndClose(ch, v) ==
    [ch EXCEPT !.buf = Append(@, v), !.closed = TRUE, !.writes = @ + 1,
               !.closes = @ + 1, !.lateWrite = @ \/ ch.closed]

\* handlerLoop is parked in its select and can receive from ctrlChannel.
\* (variant: also receives while a task body runs, as with "go ctrl.execute()")
LoopAtSelect_WhileExecuting == loopPc \in {"select", "exec"}
LoopAtSelect == loopPc = "select"

\* Which private channel handleSyncReply writes for an outcome with error e.
\* (variant: ignores err and always writes the reply channel)
SyncReplyTarget_AlwaysReply(e) == "reply"
SyncReplyTarget(e) == IF e # NoErr THEN "err" ELSE "reply"

\* The condition of the helper's for loop.
\* (variant: the loop condition forgets !received)
HelperContinues_IgnoresReceived(rcv, e) == e = NoErr
HelperContinues(rcv, e) == ~rcv /\ e = NoErr

\* ----------------------------------------------------------------- Init
Init ==
    /\ cancelled = FALSE
    /\ loopPc = "select"
    /\ cur = NoAction
    /\ curOut = <<Nil, NoErr>>
    /\ running = {}
    /\ applied = <<>>
    /\ task = [i \in Ids |-> "result"]
    /\ args = [i \in Ids |-> Nil]
    /\ syncPc = [c \in SyncIds |-> "idle"]
    /\ helperPc = [c \in SyncIds |-> "none"]
    /\ send = [c \in SyncIds |-> NewChan]
    /\ replyChan = [c \in SyncIds |-> NewChan]
    /\ errChan = [c \in SyncIds |-> NewChan]
    /\ err = [c \in SyncIds |-> NoErr]
    /\ reply = [c \in SyncIds |-> Nil]
    /\ received = [c \in SyncIds |-> FALSE]
    /\ ret = [c \in SyncIds |-> <<Nil, NoErr>>]
    /\ asyncPc = [a \in AsyncIds |-> "idle"]
    /\ issuedAfterCancel = {}
    /\ dequeued = [i \in Ids |-> "no"]
    /\ cancelledDuring = NoAction
    /\ subsByTheme = [t \in {} |-> [i \in {} |-> 0]]
    /\ uuid = 0
    /\ created = {}
    /\ removeAsked = {}
    /\ ops = 0
    /\ sequential = TRUE

\* -------------------------------------------------------------- actions

\* The owner of the context calls cancel().
Cancel ==
    /\ ~cancelled
    /\ cancelled' = TRUE
    /\ cancelledDuring' = IF loopPc = "exec" THEN cur ELSE NoAction
    /\ UNCHANGED <<loopVars, task, args, syncPc, helperPc, chanVars,
                   helperVars, ret, asyncPc, issuedAfterCancel, dequeued,
                   subVars>>

\* SynchronousActionSend, lines 79-112: make the channels, build the
\* ctrlAction and start the helper goroutine.
SyncStart(c, k, a) ==
    /\ syncPc[c] = "idle"
    /\ \A d \in SyncIds : d < c => syncPc[d] # "idle"
    /\ syncPc' = [syncPc EXCEPT ![c] = "send"]
    /\ helperPc' = [helperPc EXCEPT ![c] = "select"]
    /\ task' = [task EXCEPT ![c] = k]
    /\ args' = [args EXCEPT ![c] = a]
    /\ issuedAfterCancel' = IF cancelled THEN issuedAfterCancel \cup {c}
                            ELSE issuedAfterCancel
    /\ UNCHANGED <<cancelled, loopVars, chanVars, helperVars, ret, asyncPc,
                   dequeued, cancelledDuring,
                   subState>>

SyncCall(c, k, a) == SyncStart(c, k, a) /\ UNCHANGED clientVars

\* SynchronousActionSend, line 113: send <- true (capacity 1, never blocks).
SyncSendToken(c) ==
    /\ syncPc[c] = "send"
    /\ CanSend(send[c])
    /\ send' = [send EXCEPT ![c].buf = Append(@, TRUE)]
    /\ syncPc' = [syncPc EXCEPT ![c] = "wait"]
    /\ UNCHANGED <<cancelled, loopVars, task, args, helperPc, replyChan,
                   errChan, helperVars, ret, asyncPc, histVars,
                   subVars>>

\* Helper select, case <-h.ctx.Done(): err = h.ctx.Err().
\* (variant: reports the cancellation without ctx.Done() being ready)
HelperCtxDone_Unguarded(c) ==
    /\ helperPc[c] = "select"
    /\ err' = [err EXCEPT ![c] = Canceled]
    /\ helperPc' = [helperPc EXCEPT ![c] = "notify"]
    /\ UNCHANGED <<cancelled, loopVars, task, args, syncPc, chanVars, reply,
                   received, ret, asyncPc, histVars,
                   subVars>>
HelperCtxDone(c) ==
    /\ helperPc[c] = "select"
    /\ CtxDone
    /\ err' = [err EXCEPT ![c] = CtxErr]
    /\ helperPc' = [helperPc EXCEPT ![c] =
                      IF HelperContinues(received[c], CtxErr)
                      THEN "select" ELSE "notify"]
    /\ UNCHANGED <<cancelled, loopVars, task, args, syncPc, chanVars, reply,
                   received, ret, asyncPc, histVars,
                   subVars>>

\* Helper select, case reply = <-replyChan: received = true.
HelperRecvReply(c) ==
    /\ helperPc[c] = "select"
    /\ CanRecv(replyChan[c])
    /\ reply' = [reply EXCEPT ![c] = RecvVal(replyChan[c], Nil)]
    /\ received' = [received EXCEPT ![c] = TRUE]
    /\ replyChan' = [replyChan EXCEPT ![c] = AfterRecv(@)]
    /\ helperPc' = [helperPc EXCEPT ![c] =
                      IF HelperContinues(TRUE, err[c])
                      THEN "select" ELSE "notify"]
    /\ UNCHANGED <<cancelled, loopVars, task, args, syncPc, send, errChan,
                   err, ret, asyncPc, histVars,
                   subVars>>

\* Helper select, case err = <-errChan.
HelperRecvErr(c) ==
    /\ helperPc[c] = "select"
    /\ CanRecv(errChan[c])
    /\ err' = [err EXCEPT ![c] = RecvVal(errChan[c], NoErr)]
    /\ errChan' = [errChan EXCEPT ![c] = AfterRecv(@)]
    /\ helperPc' = [helperPc EXCEPT ![c] =
                      IF HelperContinues(received[c], RecvVal(errChan[c], NoErr))
                      THEN "select" ELSE "notify"]
    /\ UNCHANGED <<cancelled, loopVars, task, args, syncPc, send, replyChan,
                   reply, received, ret, asyncPc, histVars,
                   subVars>>

\* Helper select, case <-send: the helper goes on to line 108 and parks on
\* the plain (not selected) send h.ctrlChannel <- ctrlAction.
\* (variant: the token stays in the send channel)
HelperTakeSend_LeavesToken(c) ==
    /\ helperPc[c] = "select"
    /\ CanRecv(send[c])
    /\ helperPc' = [helperPc EXCEPT ![c] = "handoff"]
    /\ UNCHANGED <<cancelled, loopVars, task, args, syncPc, chanVars,
                   helperVars, ret, asyncPc, histVars,
                   subVars>>
HelperTakeSend(c) ==
    /\ helperPc[c] = "select"
    /\ CanRecv(send[c])
    /\ send' = [send EXCEPT ![c] = AfterRecv(@)]
    /\ helperPc' = [helperPc EXCEPT ![c] = "handoff"]
    /\ UNCHANGED <<cancelled, loopVars, task, args, syncPc, replyChan,
                   errChan, helperVars, ret, asyncPc, histVars,
                   subVars>>

\* Line 111 chanDone <- true meets line 114 <-chanDone; the caller returns
\* (reply, err) and the deferred function closes chanDone and send.
SyncReturn(c) ==
    /\ helperPc[c] = "notify"
    /\ syncPc[c] = "wait"
    /\ helperPc' = [helperPc EXCEPT ![c] = "exit"]
    /\ syncPc' = [syncPc EXCEPT ![c] = "returned"]
    /\ ret' = [ret EXCEPT ![c] = <<reply[c], err[c]>>]
    /\ send' = [send EXCEPT ![c].closed = TRUE]
    /\ UNCHANGED <<cancelled, loopVars, task, args, replyChan, errChan,
                   helperVars, asyncPc, histVars,
                   subVars>>

\* AsynchronousActionSend, line 120: the caller parks on the plain send
\* h.ctrlChannel <- &ctrlAction{sync: false, ...}.
AsyncStart(a, k, p) ==
    /\ asyncPc[a] = "idle"
    /\ \A d \in AsyncIds : d < a => asyncPc[d] # "idle"
    /\ asyncPc' = [asyncPc EXCEPT ![a] = "handoff"]
    /\ task' = [task EXCEPT ![a] = k]
    /\ args' = [args EXCEPT ![a] = p]
    /\ issuedAfterCancel' = IF cancelled THEN issuedAfterCancel \cup {a}
                            ELSE issuedAfterCancel
    /\ UNCHANGED <<cancelled, loopVars, syncPc, helperPc, chanVars,
                   helperVars, ret, dequeued, cancelledDuring,
                   subState>>

AsyncCall(a, k, p) == AsyncStart(a, k, p) /\ UNCHANGED clientVars

\* id's sender is parked on h.ctrlChannel <- ...
ParkedOnCtrl(i) ==
    IF i \in SyncIds THEN helperPc[i] = "handoff" ELSE asyncPc[i] = "handoff"

\* The argument execute() hands to the task: c.args of the ctrlAction.
\* (variant: the ctrlAction is built without its args)
CtrlArgs_Dropped(i) == Nil
CtrlArgs(i) == args[i]

\* handlerLoop select, case <-h.ctx.Done(): return.
\* (variant: the loop also checks ctx.Done() while a task body runs and
\* abandons the task)
LoopCtxDone_Interrupts ==
    /\ loopPc \in {"select", "exec"}
    /\ CtxDone
    /\ loopPc' = "done"
    /\ running' = {}
    /\ UNCHANGED <<cancelled, cur, curOut, applied, task, args,
                   syncPc, helperPc, chanVars, helperVars, ret, asyncPc,
                   histVars,
                   subVars>>
LoopCtxDone ==
    /\ LoopAtSelect
    /\ CtxDone
    /\ loopPc' = "done"
    /\ UNCHANGED <<cancelled, cur, curOut, running, applied, task, args,
                   syncPc, helperPc, chanVars, helperVars, ret, asyncPc,
                   histVars,
                   subVars>>

\* handlerLoop select, case ctrl := <-h.ctrlChannel: the rendezvous with a
\* parked sender; the sender resumes and the task body starts.
\* (variant: an async sender stays parked until its task has completed)
LoopDequeue_KeepsAsyncParked(i) ==
    /\ LoopAtSelect
    /\ ParkedOnCtrl(i)
    /\ dequeued[i] = "no"
    /\ cur' = i
    /\ loopPc' = "exec"
    /\ running' = running \cup {i}
    /\ dequeued' = [dequeued EXCEPT ![i] = IF cancelled THEN "ended" ELSE "active"]
    /\ helperPc' = IF i \in SyncIds THEN [helperPc EXCEPT ![i] = "select"]
                   ELSE helperPc
    /\ UNCHANGED <<cancelled, curOut, applied, task, args, syncPc, chanVars,
                   helperVars, ret, asyncPc, issuedAfterCancel, cancelledDuring,
                   subVars>>
LoopDequeue(i) ==
    /\ LoopAtSelect
    /\ ParkedOnCtrl(i)
    /\ cur' = i
    /\ loopPc' = "exec"
    /\ running' = running \cup {i}
    /\ dequeued' = [dequeued EXCEPT ![i] = IF cancelled THEN "ended" ELSE "active"]
    /\ IF i \in SyncIds
       THEN /\ helperPc' = [helperPc EXCEPT ![i] = "select"]
            /\ UNCHANGED asyncPc
       ELSE /\ asyncPc' = [asyncPc EXCEPT ![i] = "returned"]
            /\ UNCHANGED helperPc
    /\ UNCHANGED <<cancelled, curOut, applied, task, args, syncPc, chanVars,
                   helperVars, ret, issuedAfterCancel, cancelledDuring,
                   subVars>>

\* ---- the tasks of the subscription example (examples/subscriber/sub)

Themes == 1..NThemes
SubTaskKinds == {"add", "count", "remove"}

\* newSubscriptionArgs, countSubscriptionArgs and removeSubscriptionArgs.
SubArgs(t, n, id) == [theme |-> t, name |-> n, subID |-> id]

\* subsByTheme[theme] with its "exists" flag: the empty map when absent.
SubByID(m, t) == IF t \in DOMAIN m THEN m[t] ELSE [i \in {} |-> 0]

\* m[k] = v on a Go map.
MapPut(m, k, v) == [x \in DOMAIN m \cup {k} |-> IF x = k THEN v ELSE m[x]]
\* delete(m, k) on a Go map.
MapDelete(m, k) == [x \in DOMAIN m \ {k} |-> m[x]]

\* addNewSubscriptionThreadSafe: the outcome and the state it leaves.
\* (variant: always starts from a new map for the theme)
addNewSubscriptionThreadSafe_ReplacesTheme(a) ==
    [out  |-> <<uuid + 1, NoErr>>,
     subs |-> MapPut(subsByTheme, a.theme,
                     MapPut([i \in {} |-> 0], uuid + 1, a.name)),
     uuid |-> uuid + 1]
addNewSubscriptionThreadSafe(a) ==
    [out  |-> <<uuid + 1, NoErr>>,
     subs |-> MapPut(subsByTheme, a.theme,
                     MapPut(SubByID(subsByTheme, a.theme), uuid + 1, a.name)),
     uuid |-> uuid + 1]

\* countSubscriptionByThemeThreadSafe.
\* (variant: the length of the outer map instead of the theme's map)
countSubscriptionByThemeThreadSafe_CountsThemes(a) ==
    [out  |-> <<IF a.theme \in DOMAIN subsByTheme
                THEN Cardinality(DOMAIN subsByTheme) ELSE 0, NoErr>>,
     subs |-> subsByTheme,
     uuid |-> uuid]
countSubscriptionByThemeThreadSafe(a) ==
    [out  |-> <<IF a.theme \in DOMAIN subsByTheme
                THEN Cardinality(DOMAIN subsByTheme[a.theme]) ELSE 0, NoErr>>,
     subs |-> subsByTheme,
     uuid |-> uuid]

\* removeSubscriptionThreadSafe.
\* (variant: the entry is not deleted)
removeSubscriptionThreadSafe_KeepsEntry(a) ==
    [out |-> <<Nil, NoErr>>, subs |-> subsByTheme, uuid |-> uuid]
removeSubscriptionThreadSafe(a) ==
    [out  |-> <<Nil, NoErr>>,
     subs |-> IF a.theme \in DOMAIN subsByTheme
              THEN IF DOMAIN subsByTheme[a.theme] \ {a.subID} = {}
                   THEN MapDelete(subsByTheme, a.theme)
                   ELSE MapPut(subsByTheme, a.theme,
                               MapDelete(subsByTheme[a.theme], a.subID))
              ELSE subsByTheme,
     uuid |-> uuid]

\* c.controlFunc(c.args) for every task: its outcome and the state of the
\* subscription handler it leaves.
RunTask(kind, a) ==
    CASE kind = "add"    -> addNewSubscriptionThreadSafe(a)
      [] kind = "count"  -> countSubscriptionByThemeThreadSafe(a)
      [] kind = "remove" -> removeSubscriptionThreadSafe(a)
      [] OTHER -> [out |-> execute(kind, a), subs |-> subsByTheme, uuid |-> uuid]

\* Line 56: the task body runs to its end and execute() returns.
\* (variant: the loop returns when the task reports a failure)
LoopExecute_StopsOnFailure ==
    /\ loopPc = "exec"
    /\ subsByTheme' = RunTask(task[cur], CtrlArgs(cur)).subs
    /\ uuid' = RunTask(task[cur], CtrlArgs(cur)).uuid
    /\ applied' = Append(applied, <<cur, task[cur], CtrlArgs(cur)>>)
    /\ running' = running \ {cur}
    /\ IF RunTask(task[cur], CtrlArgs(cur)).out[2] # NoErr
       THEN /\ loopPc' = "done"
            /\ curOut' = <<Nil, NoErr>>
            /\ cur' = NoAction
       ELSE IF cur \in SyncIds
       THEN /\ loopPc' = "reply"
            /\ curOut' = RunTask(task[cur], CtrlArgs(cur)).out
            /\ UNCHANGED cur
       ELSE /\ loopPc' = "select"
            /\ curOut' = <<Nil, NoErr>>
            /\ cur' = NoAction
    /\ UNCHANGED <<cancelled, task, args, syncPc, helperPc, chanVars,
                   helperVars, ret, asyncPc, histVars,
                   clientVars>>
LoopExecute ==
    /\ loopPc = "exec"
    /\ subsByTheme' = RunTask(task[cur], CtrlArgs(cur)).subs
    /\ uuid' = RunTask(task[cur], CtrlArgs(cur)).uuid
    /\ applied' = Append(applied, <<cur, task[cur], CtrlArgs(cur)>>)
    /\ running' = running \ {cur}
    /\ IF cur \in SyncIds
       THEN /\ loopPc' = "reply"
            /\ curOut' = RunTask(task[cur], CtrlArgs(cur)).out
            /\ UNCHANGED cur
       ELSE /\ loopPc' = "select"
            /\ curOut' = <<Nil, NoErr>>
            /\ cur' = NoAction
    /\ UNCHANGED <<cancelled, task, args, syncPc, helperPc, chanVars,
                   helperVars, ret, asyncPc, histVars,
                   clientVars>>

\* Lines 57-59 and handleSyncReply: write the outcome to one private
\* channel and close that channel.
\* (variant: the loop stays on the outcome and delivers it again)
LoopHandleSyncReply_Redelivers ==
    /\ loopPc = "reply"
    /\ IF SyncReplyTarget(curOut[2]) = "err"
       THEN /\ CanSend(errChan[cur])
            /\ errChan' = [errChan EXCEPT ![cur] = SendAndClose(@, curOut[2])]
            /\ UNCHANGED replyChan
       ELSE /\ CanSend(replyChan[cur])
            /\ replyChan' = [replyChan EXCEPT ![cur] = SendAndClose(@, curOut[1])]
            /\ UNCHANGED errChan
    /\ UNCHANGED <<cancelled, loopPc, cur, curOut, running, applied, task,
                   args, syncPc, helperPc, send, helperVars, ret, asyncPc,
                   histVars, subVars>>
LoopHandleSyncReply ==
    /\ loopPc = "reply"
    /\ IF SyncReplyTarget(curOut[2]) = "err"
       THEN /\ CanSend(errChan[cur])
            /\ errChan' = [errChan EXCEPT ![cur] = SendAndClose(@, curOut[2])]
            /\ UNCHANGED replyChan
       ELSE /\ CanSend(replyChan[cur])
            /\ replyChan' = [replyChan EXCEPT ![cur] = SendAndClose(@, curOut[1])]
            /\ UNCHANGED errChan
    /\ loopPc' = "select"
    /\ cur' = NoAction
    /\ curOut' = <<Nil, NoErr>>
    /\ UNCHANGED <<cancelled, running, applied, task, args, syncPc,
                   helperPc, send, helperVars, ret, asyncPc, histVars,
                   subVars>>

HelperStep(c) ==
    \/ HelperCtxDone(c)
    \/ HelperRecvReply(c)
    \/ HelperRecvErr(c)
    \/ HelperTakeSend(c)

Next ==
    \/ Cancel
    \/ \E c \in SyncIds, in \in SyncInputs : SyncCall(c, in[1], in[2])
    \/ \E c \in SyncIds : SyncSendToken(c)
    \/ \E c \in SyncIds : HelperCtxDone(c)
    \/ \E c \in SyncIds : HelperRecvReply(c)
    \/ \E c \in SyncIds : HelperRecvErr(c)
    \/ \E c \in SyncIds : HelperTakeSend(c)
    \/ \E c \in SyncIds : SyncReturn(c)
    \/ \E a \in AsyncIds, in \in AsyncInputs : AsyncCall(a, in[1], in[2])
    \/ LoopCtxDone
    \/ \E i \in Ids : LoopDequeue(i)
    \/ LoopExecute
    \/ LoopHandleSyncReply

Spec == Init /\ [][Next]_vars

\* Every goroutine that can run eventually runs; a sender parked on
\* ctrlChannel is served when the loop keeps coming back to its select
\* (the runtime queues parked senders in FIFO order).
Fairness ==
    /\ \A c \in SyncIds : WF_vars(SyncSendToken(c))
    /\ \A c \in SyncIds : WF_vars(HelperStep(c))
    /\ \A c \in SyncIds : WF_vars(SyncReturn(c))
    /\ WF_vars(LoopCtxDone \/ \E i \in Ids : LoopDequeue(i))
    /\ \A i \in Ids : SF_vars(LoopDequeue(i))
    /\ WF_vars(LoopExecute)
    /\ WF_vars(LoopHandleSyncReply)

FairSpec == Spec /\ Fairness

\* The same system with fewer submitted tasks, for the properties that say
\* something eventually happens: one task that returns a result and one
\* that fails for the sync callers, a task with and without argument for
\* the async callers.
LiveSyncInputs == {<<"result", MaxArg>>, <<"fail", Nil>>}
LiveAsyncInputs == {"result"} \X {Nil, MaxArg}

NextLive ==
    \/ Cancel
    \/ \E c \in SyncIds, in \in LiveSyncInputs : SyncCall(c, in[1], in[2])
    \/ \E c \in SyncIds : SyncSendToken(c)
    \/ \E c \in SyncIds : HelperCtxDone(c)
    \/ \E c \in SyncIds : HelperRecvReply(c)
    \/ \E c \in SyncIds : HelperRecvErr(c)
    \/ \E c \in SyncIds : HelperTakeSend(c)
    \/ \E c \in SyncIds : SyncReturn(c)
    \/ \E a \in AsyncIds, in \in LiveAsyncInputs : AsyncCall(a, in[1], in[2])
    \/ LoopCtxDone
    \/ \E i \in Ids : LoopDequeue(i)
    \/ LoopExecute
    \/ LoopHandleSyncReply

LiveSpec == Init /\ [][NextLive]_vars /\ Fairness

\* ---- the callers of the subscription example

\* No operation on the subscription handler is in progress.
NoneInFlight ==
    /\ \A c \in SyncIds : syncPc[c] = "idle"
    /\ \A a \in AsyncIds : asyncPc[a] = "idle"
    /\ loopPc = "select"

\* AddNewSubscription, lines 62-67: the sync call of the add task.
AddNewSubscription(c, t) ==
    /\ ops < MaxOps
    /\ SyncStart(c, "add", SubArgs(t, c, 0))
    /\ ops' = ops + 1
    /\ sequential' = (sequential /\ NoneInFlight)
    /\ UNCHANGED <<created, removeAsked>>

\* CountSubscriptionByTheme, lines 91-95: the sync call of the count task.
CountSubscriptionByTheme(c, t) ==
    /\ ops < MaxOps
    /\ SyncStart(c, "count", SubArgs(t, c, 0))
    /\ ops' = ops + 1
    /\ sequential' = (sequential /\ NoneInFlight)
    /\ UNCHANGED <<created, removeAsked>>

\* RemoveSubscriptionSync, lines 122-127, for an id a caller was given.
RemoveSubscriptionSync(c, p) ==
    /\ ops < MaxOps
    /\ p \in created \ removeAsked
    /\ SyncStart(c, "remove", SubArgs(p[1], c, p[2]))
    /\ ops' = ops + 1
    /\ removeAsked' = removeAsked \cup {p}
    /\ sequential' = (sequential /\ NoneInFlight)
    /\ UNCHANGED created

\* RemoveSubscriptionAsync, lines 137-142, for an id a caller was given.
RemoveSubscriptionAsync(a, p) ==
    /\ ops < MaxOps
    /\ p \in created \ removeAsked
    /\ AsyncStart(a, "remove", SubArgs(p[1], a, p[2]))
    /\ ops' = ops + 1
    /\ removeAsked' = removeAsked \cup {p}
    /\ sequential' = FALSE
    /\ UNCHANGED created

\* The sync wrappers after SynchronousActionSend has returned (lines 68-74,
\* 96-101, 128-133): the caller gets the id, the count or nothing, and the
\* call's channels and ctrlAction are garbage.
WrapperReturn(c) ==
    /\ syncPc[c] = "returned"
    /\ created' = IF task[c] = "add" /\ ret[c][2] = NoErr
                  THEN created \cup {<<args[c].theme, ret[c][1]>>}
                  ELSE created
    /\ syncPc' = [syncPc EXCEPT ![c] = "idle"]
    /\ helperPc' = [helperPc EXCEPT ![c] = "none"]
    /\ send' = [send EXCEPT ![c] = NewChan]
    /\ replyChan' = [replyChan EXCEPT ![c] = NewChan]
    /\ errChan' = [errChan EXCEPT ![c] = NewChan]
    /\ err' = [err EXCEPT ![c] = NoErr]
    /\ reply' = [reply EXCEPT ![c] = Nil]
    /\ received' = [received EXCEPT ![c] = FALSE]
    /\ ret' = [ret EXCEPT ![c] = <<Nil, NoErr>>]
    /\ task' = [task EXCEPT ![c] = "result"]
    /\ args' = [args EXCEPT ![c] = Nil]
    /\ dequeued' = [dequeued EXCEPT ![c] = "no"]
    /\ UNCHANGED <<cancelled, loopVars, asyncPc, issuedAfterCancel,
                   cancelledDuring, subState, removeAsked, ops, sequential>>

\* RemoveSubscriptionAsync after AsynchronousActionSend has returned (lines
\* 144-145); its ctrlAction is garbage once the loop is done with it.
AsyncWrapperReturn(a) ==
    /\ asyncPc[a] = "returned"
    /\ cur # a
    /\ asyncPc' = [asyncPc EXCEPT ![a] = "idle"]
    /\ task' = [task EXCEPT ![a] = "result"]
    /\ args' = [args EXCEPT ![a] = Nil]
    /\ dequeued' = [dequeued EXCEPT ![a] = "no"]
    /\ UNCHANGED <<cancelled, loopVars, syncPc, helperPc, chanVars,
                   helperVars, ret, issuedAfterCancel, cancelledDuring,
                   subVars>>

\* The subscription example on a handler whose scope stays active (the
\* callers defer cancel()); its tasks return no failure, so the ctx.Done()
\* and errChan cases of the selects are never ready.
NextSub ==
    \/ \E c \in SyncIds, t \in Themes : AddNewSubscription(c, t)
    \/ \E c \in SyncIds, t \in Themes : CountSubscriptionByTheme(c, t)
    \/ \E c \in SyncIds, p \in created : RemoveSubscriptionSync(c, p)
    \/ \E a \in AsyncIds, p \in created : RemoveSubscriptionAsync(a, p)
    \/ \E c \in SyncIds : WrapperReturn(c)
    \/ \E a \in AsyncIds : AsyncWrapperReturn(a)
    \/ \E c \in SyncIds : SyncSendToken(c)
    \/ \E c \in SyncIds : HelperRecvReply(c)
    \/ \E c \in SyncIds : HelperTakeSend(c)
    \/ \E c \in SyncIds : SyncReturn(c)
    \/ \E i \in Ids : LoopDequeue(i)
    \/ LoopExecute
    \/ LoopHandleSyncReply

SubSpec == Init /\ [][NextSub]_vars

TypeOK ==
    /\ cancelled \in BOOLEAN
    /\ loopPc \in {"select", "exec", "reply", "done"}
    /\ cur \in Ids \cup {NoAction}
    /\ running \subseteq Ids
    /\ \A c \in SyncIds : syncPc[c] \in {"idle", "send", "wait", "returned"}
    /\ \A c \in SyncIds : helperPc[c] \in {"none", "select", "handoff", "notify", "exit"}
    /\ \A a \in AsyncIds : asyncPc[a] \in {"idle", "handoff", "returned"}
    /\ \A i \in Ids : task[i] \in TaskKinds /\ args[i] \in Args
    /\ \A i \in Ids : dequeued[i] \in {"no", "active", "ended"}
    /\ issuedAfterCancel \subseteq Ids
    /\ cancelledDuring \in Ids \cup {NoAction}

\* ================================================================ claims

\* C1: in every reachable state at most one task body is executing, for
\* any number of concurrent sync and async callers.
C1_AtMostOneTaskRuns == Cardinality(running) <= 1

\* A task body is executing while another caller is parked on ctrlChannel.
C1_Witness ==
    \E i \in running : \E j \in Ids \ {i} : ParkedOnCtrl(j)

\* A sync call that has not handed its submission to the loop yet.
WaitingToDeliver(c) ==
    syncPc[c] \in {"send", "wait"} /\ dequeued[c] = "no"

ReturnedCanceled(c) ==
    syncPc[c] = "returned" /\ ret[c] = <<Nil, Canceled>>

\* C2: once the scope is cancelled, every sync call that is waiting to hand
\* off its submission, and every sync call issued after the cancellation,
\* eventually returns the cancellation failure.
C2_CanceledCallersReturn ==
    \A c \in SyncIds :
        (cancelled /\ (WaitingToDeliver(c) \/ c \in issuedAfterCancel))
            ~> ReturnedCanceled(c)

\* The outcomes a sync call may return: a task result, a task failure or
\* the cancellation failure.
IsOutcome(r) ==
    \/ r[2] = NoErr
    \/ r[1] = Nil /\ r[2] \in {TaskErr, Canceled}

\* C3: every sync call eventually returns, with exactly one of the three
\* outcomes.
C3_EveryCallResolves ==
    \A c \in SyncIds :
        (syncPc[c] # "idle") ~> (syncPc[c] = "returned" /\ IsOutcome(ret[c]))

\* The ids whose task body has run to its end (their side effect is in the
\* shared state).
AppliedIds == {applied[n][1] : n \in 1..Len(applied)}

\* C4: the task of an async call issued after the scope ended never
\* executes.
C4_NoAsyncTaskAfterScopeEnd ==
    \A a \in AsyncIds :
        a \in issuedAfterCancel => (a \notin running /\ a \notin AppliedIds)

\* C5: an async call whose scope has ended, before the call or while it is
\* parked on the hand-off, eventually returns to its caller.
C5_AsyncCallAborts ==
    \A a \in AsyncIds :
        (cancelled /\ asyncPc[a] = "handoff") ~> (asyncPc[a] = "returned")

\* C6: once the scope has ended the loop dequeues no further submission.
C6_NoDequeueAfterScopeEnd ==
    [][cancelled => dequeued' = dequeued]_vars

\* C7: with the scope not cancelled, a sync call of a task that returns
\* (RetValue{p}, nil) returns exactly that pair, for nil and non-nil p.
C7_SyncReturnsTaskResult ==
    \A c \in SyncIds :
        (syncPc[c] = "returned" /\ ~cancelled /\ task[c] = "result")
            => ret[c] = <<RetValue(args[c]), NoErr>>

\* Two calls have returned a result with the scope active: one was passed
\* nil, the other a non-nil argument.
C7_Witness ==
    /\ ~cancelled
    /\ \E c, d \in SyncIds :
        /\ syncPc[c] = "returned" /\ task[c] = "result" /\ args[c] = Nil
        /\ syncPc[d] = "returned" /\ task[d] = "result" /\ args[d] # Nil

\* C8: with the scope not cancelled, a sync call of a task that returns a
\* failure returns (nil, that failure), whatever result came with it.
C8_SyncReturnsTaskFailure ==
    \A c \in SyncIds :
        (syncPc[c] = "returned" /\ ~cancelled
            /\ task[c] \in {"fail", "failWithResult"})
            => ret[c] = <<Nil, TaskErr>>

\* A call whose task returned a result next to its failure has returned.
C8_Witness ==
    /\ ~cancelled
    /\ \E c \in SyncIds :
        /\ syncPc[c] = "returned"
        /\ task[c] = "failWithResult"
        /\ c \in AppliedIds

C10_CancelDuringTaskReturnsCanceled ==
    \A c \in SyncIds :
        (syncPc[c] = "returned" /\ cancelledDuring = c)
            => ret[c] = <<Nil, Canceled>>

\* C10 amended: a sync call that returns while its task body is still
\* executing returns (nil, "context canceled"), and the scope has ended.
C10_ReturnDuringTaskIsCanceled ==
    \A c \in SyncIds :
        (syncPc[c] = "returned" /\ c \in running)
            => (cancelled /\ ret[c] = <<Nil, Canceled>>)

\* A call has returned while its own task body is still executing.
C10_Witness ==
    \E c \in SyncIds :
        syncPc[c] = "returned" /\ c \in running /\ cancelledDuring = c

\* C11: a task the loop has started is never interrupted by the end of the
\* scope: it stays running until its body has completed, the loop leaves
\* only from its select, and every started task does complete.
C11_StartedTaskCompletes ==
    /\ [][\A i \in Ids :
            i \in running
                => \/ i \in running' /\ loopPc' = "exec"
                   \/ i \in AppliedIds' /\ loopPc' # "done"]_vars
    /\ \A i \in Ids : (i \in running) ~> (i \in AppliedIds)

\* The scope ended while a task body was executing; the task has completed
\* and the loop has returned afterwards.
C11_Witness ==
    /\ cancelledDuring # NoAction
    /\ cancelledDuring \in AppliedIds
    /\ loopPc = "done"

\* How many times the task of submission i has been executed.
ExecCount(i) == Cardinality({n \in 1..Len(applied) : applied[n][1] = i})

\* C15: every submission that is dequeued is executed once, never again,
\* with the argument that was passed; while the scope is active an async
\* call leads to the execution of its task.
C15_AsyncExecutedOnce ==
    /\ [](\A i \in Ids :
            /\ ExecCount(i) <= 1
            /\ \A n \in 1..Len(applied) :
                   applied[n][1] = i => applied[n][3] = args[i]
            /\ dequeued[i] # "no" => (i \in running \/ ExecCount(i) = 1)
            /\ dequeued[i] = "no" => ExecCount(i) = 0)
    /\ \A a \in AsyncIds :
          (asyncPc[a] = "handoff") ~> (cancelled \/ a \in AppliedIds)

\* With the scope active, the tasks of two calls have been executed, one of them
\* an async call with a non-nil argument.
C15_Witness ==
    /\ ~cancelled
    /\ \E a \in AsyncIds : a \in AppliedIds /\ args[a] # Nil
    /\ \E c \in SyncIds : c \in AppliedIds

\* C16: an async call returns at the hand-off, without waiting for its
\* task: once its submission is dequeued the caller has returned, also
\* while the task body is still executing.
C16_AsyncReturnsAtHandoff ==
    \A a \in AsyncIds :
        /\ dequeued[a] # "no" => asyncPc[a] = "returned"
        /\ asyncPc[a] = "returned" => dequeued[a] # "no"

\* An async call has returned while its own task body is executing.
C16_Witness ==
    \E a \in AsyncIds : asyncPc[a] = "returned" /\ a \in running

\* C17: an async caller is never kept suspended on the hand-off while the
\* loop is busy with another caller's task.
C17_AsyncHandoffNeverWaits ==
    \A a \in AsyncIds :
        ~(asyncPc[a] = "handoff" /\ loopPc \in {"exec", "reply"} /\ cur # a)

\* Channel ch was closed at most once, never written after its close and
\* received from at most once.
UsedOnce(ch) == ch.closes <= 1 /\ ~ch.lateWrite /\ ch.recvs <= 1

\* C18: no reply or failure channel is closed twice or written after its
\* close, and each is received from at most once.
C18_ChannelsUsedOnce ==
    \A c \in SyncIds : UsedOnce(replyChan[c]) /\ UsedOnce(errChan[c])

\* A helper has received from a channel the loop wrote and closed, and
\* another call returned on cancellation while its reply sits unread.
C18_Witness ==
    /\ \E c \in SyncIds :
          \/ replyChan[c].closes = 1 /\ replyChan[c].recvs = 1
          \/ errChan[c].closes = 1 /\ errChan[c].recvs = 1
    /\ \E c \in SyncIds :
          /\ syncPc[c] = "returned"
          /\ replyChan[c].closes + errChan[c].closes = 1
          /\ replyChan[c].recvs + errChan[c].recvs = 0

\* The loop has executed c's task and finished handleSyncReply for it.
Delivered(c) == c \in AppliedIds /\ cur # c

\* C19: for every sync submission the loop has executed exactly one private
\* channel is written, once: the failure channel iff the task failed.
C19_ExactlyOneChannelWritten ==
    \A c \in SyncIds :
        /\ Delivered(c) =>
              /\ replyChan[c].writes + errChan[c].writes = 1
              /\ errChan[c].writes = 1 <=> task[c] \in {"fail", "failWithResult"}
        /\ ~Delivered(c) => replyChan[c].writes + errChan[c].writes = 0

\* Outcomes of a failed and of a successful task have both been delivered.
C19_Witness ==
    \E c, d \in SyncIds :
        /\ Delivered(c) /\ task[c] = "failWithResult"
        /\ Delivered(d) /\ task[d] = "result"

\* C20: after the loop has delivered the outcome of a sync submission both
\* of its private channels are closed.
C20_BothChannelsClosed ==
    \A c \in SyncIds :
        Delivered(c) => (replyChan[c].closed /\ errChan[c].closed)

\* ---- claims about the subscription example (SubSpec)

\* The subscriptions held in a subsByTheme map, as <<theme, id, name>>.
Entries(m) ==
    UNION {{<<t, i, m[t][i]>> : i \in DOMAIN m[t]} : t \in DOMAIN m}

\* What one task of the log does to a set of subscriptions when it is
\* applied alone: st.subs are the subscriptions, st.n the ids given so far.
SerialApply(st, e) ==
    CASE e[2] = "add" ->
           [subs |-> st.subs \cup {<<e[3].theme, st.n + 1, e[3].name>>},
            n |-> st.n + 1]
      [] e[2] = "remove" ->
           [subs |-> {x \in st.subs :
                        ~(x[1] = e[3].theme /\ x[2] = e[3].subID)},
            n |-> st.n]
      [] OTHER -> st

\* The tasks of a log applied one after another to the empty registry.
RECURSIVE SerialRun(_)
SerialRun(log) ==
    IF log = <<>>
    THEN [subs |-> {}, n |-> 0]
    ELSE SerialApply(SerialRun(SubSeq(log, 1, Len(log) - 1)), log[Len(log)])

\* C12: the shared state always equals the result of applying the executed
\* tasks one after another in the order of the log, with no theme left
\* holding an empty map, and once no call is in progress the log holds
\* every submitted task exactly once.
C12_StateIsSerialResult ==
    /\ Entries(subsByTheme) = SerialRun(applied).subs
    /\ \A t \in DOMAIN subsByTheme : DOMAIN subsByTheme[t] # {}
    /\ NoneInFlight => Len(applied) = ops

\* Calls that overlapped have all completed, two of them having added a
\* subscription to the same theme.
C12_Witness ==
    /\ ~sequential
    /\ NoneInFlight
    /\ removeAsked = {}
    /\ \E t \in Themes :
          /\ t \in DOMAIN subsByTheme
          /\ Cardinality(DOMAIN subsByTheme[t]) = 2
          /\ Cardinality({p \in created : p[1] = t}) = 2

\* An add or a remove has been submitted and is not finished.
MutationInFlight ==
    \/ \E c \in SyncIds : syncPc[c] # "idle" /\ task[c] \in {"add", "remove"}
    \/ \E a \in AsyncIds : asyncPc[a] # "idle"

\* The number of AddNewSubscription calls made so far.
AddsIssued ==
    Cardinality(created)
    + Cardinality({c \in SyncIds : syncPc[c] # "idle" /\ task[c] = "add"})

\* What CountSubscriptionByTheme(t) would find in the current state.
CountNow(t) == countSubscriptionByThemeThreadSafe(SubArgs(t, 0, 0)).out[1]

RECURSIVE SumCounts(_)
SumCounts(T) ==
    IF T = {} THEN 0
    ELSE LET t == CHOOSE x \in T : TRUE IN CountNow(t) + SumCounts(T \ {t})

\* C13: every count a caller observes lies between 0 and the number of adds
\* made; once the adds and removes made so far have completed the per-theme
\* counts sum to the number of created ids not removed, and every count is
\* 0 when all created ids were removed.
C13_CountsTrackSubscriptions ==
    /\ \A c \in SyncIds :
          (syncPc[c] = "returned" /\ task[c] = "count")
              => (ret[c][2] = NoErr /\ ret[c][1] \in 0..AddsIssued)
    /\ ~MutationInFlight =>
          /\ SumCounts(Themes) = Cardinality(created \ removeAsked)
          /\ (removeAsked = created => \A t \in Themes : CountNow(t) = 0)

\* Two adds over two themes, a count observed by a concurrent caller and a
\* removal sent asynchronously have all completed.
C13_Witness ==
    /\ ~sequential
    /\ ~MutationInFlight
    /\ Cardinality({p[1] : p \in created}) = 2
    /\ removeAsked # {}
    /\ \E k \in 1..Len(applied) : applied[k][1] \in AsyncIds
    /\ \E c \in SyncIds :
          syncPc[c] = "returned" /\ task[c] = "count" /\ ret[c][1] >= 1

\* The ids a caller holds for a theme and has not asked to remove.
HeldFor(t) == {p \in created \ removeAsked : p[1] = t}

\* C14: when the operations are made one after the other on a registry
\* that started empty, an add returns an id never returned before, a count
\* returns the number of ids added to the theme and not removed (1 after
\* the first add, the previous count again after the remove of the id), and
\* a remove succeeds.
C14_SequentialRoundTrip ==
    sequential =>
        \A c \in SyncIds :
            syncPc[c] = "returned" =>
                CASE task[c] = "add" ->
                       /\ ret[c][2] = NoErr
                       /\ ret[c][1] \notin {p[2] : p \in created}
                       /\ ret[c][1] # Nil
                  [] task[c] = "count" ->
                       ret[c] = <<Cardinality(HeldFor(args[c].theme)), NoErr>>
                  [] task[c] = "remove" -> ret[c] = <<Nil, NoErr>>
                  [] OTHER -> TRUE

\* add, count, remove and count were made one after the other on one theme
\* and the last count has returned 0.
C14_Witness ==
    /\ sequential
    /\ Len(applied) = 4
    /\ <<applied[1][2], applied[2][2], applied[3][2], applied[4][2]>>
          = <<"add", "count", "remove", "count">>
    /\ \A k \in 1..4 : applied[k][3].theme = applied[1][3].theme
    /\ created # {} /\ removeAsked = created
    /\ \E c \in SyncIds :
          syncPc[c] = "returned" /\ task[c] = "count" /\ ret[c] = <<0, NoErr>>

\* ---- claims about the order of execution and the end of the loop

\* C21: at the step that dequeues a submission b (its task starts with the
\* dequeue), the task of every submission dequeued before b has completed:
\* it is in the log and its body is not executing.
C21_DequeueOrderIsExecutionOrder ==
    [][\A b \in Ids :
         (dequeued[b] = "no" /\ dequeued'[b] # "no") =>
             /\ b \in running'
             /\ \A a \in Ids \ {b} :
                   dequeued[a] # "no" => (a \in AppliedIds /\ a \notin running)]_vars

\* Three submissions were dequeued one after the other; the first two have
\* completed in the order of their dequeue and the third is executing.
C21_Witness ==
    /\ Len(applied) = 2
    /\ loopPc = "exec"
    /\ running = {cur}
    /\ \A i \in Ids : dequeued[i] # "no"

\* The task of the ctrlAction the loop holds returns a failure.
CurFails == cur # NoAction /\ task[cur] \in {"fail", "failWithResult"}

\* C22: the loop terminates only on the end of the scope. After a failing
\* async task the loop is back at its select without having written any
\* channel; after a failing sync task it delivers the failure and is back
\* at its select.
C22_FailureKeepsLoopServing ==
    [][/\ (loopPc # "done" /\ loopPc' = "done") => cancelled
       /\ (loopPc = "exec" /\ loopPc' # "exec" /\ CurFails) =>
             IF cur \in AsyncIds
             THEN loopPc' = "select" /\ UNCHANGED chanVars
             ELSE loopPc' = "reply"
       /\ (loopPc = "reply" /\ loopPc' # "reply") => loopPc' = "select"]_vars

\* With the scope active, the loop has executed a failing async task, then
\* a failing sync task, then a task whose caller got its result.
C22_Witness ==
    /\ ~cancelled
    /\ Len(applied) = 3
    /\ applied[1][1] \in AsyncIds /\ applied[1][2] = "fail"
    /\ applied[2][1] \in SyncIds /\ applied[2][2] = "fail"
    /\ applied[3][2] = "result"
    /\ \E c \in SyncIds :
          /\ applied[3][1] = c
          /\ syncPc[c] = "returned"
          /\ ret[c] = <<RetValue(args[c]), NoErr>>
    /\ loopPc = "select"

\* C23: once the scope has ended the loop eventually returns, whatever
\* senders are parked on ctrlChannel; task bodies terminate and every
\* goroutine that can run is scheduled.
C23_LoopTerminatesAfterScopeEnd == cancelled ~> (loopPc = "done")

\* The loop has returned while two senders are parked on ctrlChannel.
C23_Witness ==
    /\ loopPc = "done"
    /\ \E i, j \in Ids : i # j /\ ParkedOnCtrl(i) /\ ParkedOnCtrl(j)

\* C24: a sync call never has both a result and a failure: neither in the
\* helper's captured variables nor in what the call returns.
C24_NeverResultAndFailure ==
    \A c \in SyncIds :
        /\ err[c] # NoErr => reply[c] = Nil
        /\ (syncPc[c] = "returned" /\ ret[c][2] # NoErr) => ret[c][1] = Nil

\* A call has returned the cancellation failure while its task's result
\* was waiting in the reply channel.
C24_Witness ==
    \E c \in SyncIds :
        /\ syncPc[c] = "returned"
        /\ ret[c] = <<Nil, Canceled>>
        /\ Len(replyChan[c].buf) = 1
        /\ Head(replyChan[c].buf) # Nil

\* The private channel handleSyncReply writes for the outcome the loop holds.
ReplyTargetChan ==
    IF SyncReplyTarget(curOut[2]) = "err" THEN errChan[cur] ELSE replyChan[cur]

\* C25: whenever the loop is about to deliver a sync outcome, the private
\* channel it writes has room and is open, so handleSyncReply completes
\* without a receiver.
C25_ReplyNeverBlocks ==
    loopPc = "reply" =>
        /\ cur \in SyncIds
        /\ CanSend(ReplyTargetChan)
        /\ ~ReplyTargetChan.closed

\* The loop delivered the outcome of a call that had already returned the
\* cancellation failure, nobody received it, and the loop has gone on to
\* another submission.
C25_Witness ==
    \E c \in SyncIds :
        /\ ret[c] = <<Nil, Canceled>> /\ syncPc[c] = "returned"
        /\ Delivered(c)
        /\ replyChan[c].writes + errChan[c].writes = 1
        /\ replyChan[c].recvs + errChan[c].recvs = 0
        /\ cur \in Ids \ {c}

\* C26: the token of a call's send channel is taken at most once, the
\* call's task is executed at most once, and it is not executed at all when
\* the helper saw the end of the scope before it took the token.
C26_TokenConsumedOnce ==
    \A c \in SyncIds :
        /\ send[c].recvs <= 1
        /\ ExecCount(c) <= 1
        /\ (err[c] = Canceled /\ send[c].recvs = 0) =>
              (dequeued[c] = "no" /\ c \notin AppliedIds /\ c \notin running)

\* One call returned the cancellation failure with its token still in the
\* send channel; the task of another call, whose token was taken, has run.
C26_Witness ==
    \E c, d \in SyncIds :
        /\ syncPc[c] = "returned" /\ err[c] = Canceled
        /\ Len(send[c].buf) = 1 /\ send[c].recvs = 0
        /\ send[d].recvs = 1 /\ ExecCount(d) = 1

====
